---- MODULE Spec2Model ----
(***************************************************************************)
(* CalendlyBot: the four-step LangGraph pipeline of CalendlyWorkflow.py    *)
(* (cache_tools -> classify -> execute -> respond) and the FastAPI server  *)
(* of server.py that runs it per request behind a lazily initialised,      *)
(* lock-guarded MCP client singleton.                                      *)
(*                                                                         *)
(* Strings are sequences of atomic characters (each TLA+ string below is   *)
(* one character of the alphabet; " " is the whitespace character).        *)
(* Python/JSON values are tagged records.                                  *)
(***************************************************************************)
EXTENDS Integers, Sequences, FiniteSets, TLC

\* ------------------------------------------------------------------ bounds
\* Number of POST /calendly/ask requests the server receives.
NumReq == 2
\* Number of times the cache_tools callback is invoked on one session in the
\* callback-level specification SpecCache.
MaxCacheCalls == 3

Requests == 1..NumReq

\* --------------------------------------------------------- Python values
JStr(s) == [t |-> "str", s |-> s]
JNum(n) == [t |-> "num", n |-> n]
JNull == [t |-> "null"]
JList(items) == [t |-> "list", items |-> items]
JDict(d) == [t |-> "dict", d |-> d]
\* a Python object json cannot serialise
PyObject == [t |-> "object"]

EmptyDict == JDict([k \in {} |-> JNull])

\* bool(v)
Truthy(v) ==
  CASE v.t = "str" -> v.s # <<>>
    [] v.t = "num" -> v.n # 0
    [] v.t = "null" -> FALSE
    [] v.t = "list" -> v.items # <<>>
    [] v.t = "dict" -> DOMAIN v.d # {}
    [] OTHER -> TRUE

\* a or b
PyOr(a, b) == IF Truthy(a) THEN a ELSE b

\* d.get(k, default) on a dict value
Get(v, k, default) == IF k \in DOMAIN v.d THEN v.d[k] ELSE default

\* the order in which a dict's keys are written out
KeyOrder ==
  << "action", "params", "event_name", "name", "duration",
     "availability_days", "date_setting", "type", "start_date", "end_date",
     "count", "login" >>

\* str(n) for the non-negative integers below 100
Digit(n) == <<"0", "1", "2", "3", "4", "5", "6", "7", "8", "9">>[n + 1]
Digits(n) == IF n < 10 THEN <<Digit(n)>> ELSE <<Digit(n \div 10), Digit(n % 10)>>

RECURSIVE Dumps(_)
RECURSIVE DumpItems(_)
RECURSIVE DumpKeys(_, _, _)
\* json.dumps(v): the JSON text of a serialisable value
Dumps(v) ==
  CASE v.t = "str" -> <<"\"">> \o v.s \o <<"\"">>
    [] v.t = "num" -> Digits(v.n)
    [] v.t = "null" -> <<"null">>
    [] v.t = "list" -> <<"[">> \o DumpItems(v.items) \o <<"]">>
    [] v.t = "dict" -> <<"{">> \o DumpKeys(v.d, 1, <<>>) \o <<"}">>
DumpItems(items) ==
  IF items = <<>> THEN <<>>
  ELSE IF Len(items) = 1 THEN Dumps(Head(items))
  ELSE Dumps(Head(items)) \o <<",">> \o DumpItems(Tail(items))
\* sep: what is written before the next key (nothing before the first)
DumpKeys(d, i, sep) ==
  IF i > Len(KeyOrder) THEN <<>>
  ELSE IF KeyOrder[i] \in DOMAIN d
    THEN sep \o <<"\"", KeyOrder[i], "\"", ":">> \o Dumps(d[KeyOrder[i]])
           \o DumpKeys(d, i + 1, <<",">>)
  ELSE DumpKeys(d, i + 1, sep)

RECURSIVE Serialisable(_)
Serialisable(v) ==
  CASE v.t = "object" -> FALSE
    [] v.t = "list" -> \A i \in DOMAIN v.items : Serialisable(v.items[i])
    [] v.t = "dict" -> \A k \in DOMAIN v.d : Serialisable(v.d[k])
    [] OTHER -> TRUE

\* str(v), as an f-string or str() renders it
PyStr(v) ==
  CASE v.t = "str" -> v.s
    [] v.t = "null" -> <<"None">>
    [] v.t = "object" -> <<"<object>">>
    [] OTHER -> Dumps(v)

\* s.strip()
RECURSIVE LStrip(_)
LStrip(s) == IF s # <<>> /\ Head(s) = " " THEN LStrip(Tail(s)) ELSE s
RECURSIVE RStrip(_)
RStrip(s) ==
  IF s # <<>> /\ s[Len(s)] = " " THEN RStrip(SubSeq(s, 1, Len(s) - 1)) ELSE s
Strip(s) == RStrip(LStrip(s))

\* ------------------------------------------------------- tool and plan names
GCU == <<"get_current_user">>
LIST_EVENTS == <<"list_events">>
COO == <<"create_one_off_event_type">>

\* the plan both fallbacks of classify_question build
DefaultPlan == JDict([action |-> JStr(GCU), params |-> EmptyDict])

\* JSON documents a chat model can answer with
OneOffPlan ==
  JDict([action |-> JStr(COO),
         params |-> JDict([event_name |-> JStr(<<"Sync">>),
                           duration |-> JNum(30),
                           availability_days |->
                             JList(<<JStr(<<"2024-01-01">>), JStr(<<"2024-01-05">>)>>)])])
JSONValues ==
  { DefaultPlan,
    JDict([action |-> JStr(LIST_EVENTS), params |-> JDict([count |-> JNum(20)])]),
    JDict([action |-> JStr(<<"delete_account">>), params |-> EmptyDict]),
    OneOffPlan,
    JDict([action |-> JStr(COO), params |-> JList(<<JNum(42)>>)]),
    JDict([action |-> JList(<<JStr(GCU)>>), params |-> EmptyDict]),
    JDict([params |-> EmptyDict]),
    EmptyDict,
    JList(<<>>),
    JNum(42),
    JStr(GCU),
    JNull }

\* json.loads(text): the value whose JSON text this is, or a ValueError
json_loads(text) ==
  IF \E v \in JSONValues : Dumps(v) = text
    THEN [ok |-> TRUE, value |-> CHOOSE v \in JSONValues : Dumps(v) = text]
    ELSE [ok |-> FALSE]

\* ------------------------------------------------------------ step results
NoExc == [raised |-> FALSE]
Exc(msg) == [raised |-> TRUE, msg |-> msg]
NoCalls == [fetch |-> 0, llm |-> 0, tool |-> 0, tool_raised |-> FALSE, tool_msg |-> <<>>]
StepResult(s, exc, calls) == [s |-> s, exc |-> exc, calls |-> calls]

\* outcomes of the awaited collaborators
Ok(v) == [ok |-> TRUE, v |-> v]
Fails(msg) == [ok |-> FALSE, msg |-> msg]

AttributeError == <<"AttributeError">>
TypeError == <<"TypeError">>
KeyError == <<"KeyError">>

SeqRange(q) == { q[i] : i \in DOMAIN q }
LastIndex(q, n) == CHOOSE i \in DOMAIN q : q[i] = n /\ \A j \in DOMAIN q : q[j] = n => j <= i

Absent == [t |-> "absent"]
\* {t.name: t for t in tool_objs}: a later tool of the same name wins
ToolMap(tools) ==
  [t |-> "map", d |-> [n \in SeqRange(tools) |-> [name |-> n, idx |-> LastIndex(tools, n)]]]

\* -------------------------------------------------------------- the session
\* initial_state of run_calendly_workflow; "_tool_map" is not a key yet
InitialState(client, question, llmHandle) ==
  [ mcp_client |-> client,
    llm |-> llmHandle,
    intent |-> <<"calendly scheduling">>,
    user_question |-> question,
    available_tools |-> <<>>,
    tool_map |-> Absent,
    plan |-> EmptyDict,
    calendly_data |-> <<>>,
    mcp_result |-> JStr(<<>>),
    output |-> <<>>,
    error |-> <<>>,
    mcp_agent |-> JNull ]

\* 1. cache_tools ------------------------------------------------------------
\* the step without its short-circuit on a populated list
cache_tools_NoShortCircuit(s, listing) ==
  IF ~listing.ok
    THEN StepResult(s, Exc(listing.msg), [NoCalls EXCEPT !.fetch = 1])
  ELSE StepResult([s EXCEPT !.available_tools = listing.v,
                            !.tool_map = ToolMap(listing.v)],
                  NoExc, [NoCalls EXCEPT !.fetch = 1])

\* the step storing the names without the map built from the same listing
cache_tools_NamesOnly(s, listing) ==
  IF s.available_tools # <<>>
    THEN StepResult(s, NoExc, NoCalls)
  ELSE IF ~listing.ok
    THEN StepResult(s, Exc(listing.msg), [NoCalls EXCEPT !.fetch = 1])
  ELSE StepResult([s EXCEPT !.available_tools = listing.v],
                  NoExc, [NoCalls EXCEPT !.fetch = 1])

cache_tools(s, listing) ==
  IF s.available_tools # <<>>
    THEN StepResult(s, NoExc, NoCalls)
  ELSE IF ~listing.ok
    THEN StepResult(s, Exc(listing.msg), [NoCalls EXCEPT !.fetch = 1])
  ELSE StepResult([s EXCEPT !.available_tools = listing.v,
                            !.tool_map = ToolMap(listing.v)],
                  NoExc, [NoCalls EXCEPT !.fetch = 1])

\* 2. classify_question ------------------------------------------------------
ParsedPlan(content) ==
  IF json_loads(content).ok THEN json_loads(content).value ELSE DefaultPlan

\* the classifier without its test for a missing model
classify_question_AlwaysAsk(s, reply) ==
  IF ~reply.ok
    THEN StepResult(s, Exc(reply.msg), [NoCalls EXCEPT !.llm = 1])
  ELSE StepResult([s EXCEPT !.plan = ParsedPlan(reply.v)],
                  NoExc, [NoCalls EXCEPT !.llm = 1])

classify_question(s, reply) ==
  IF s.llm = 0
    THEN StepResult([s EXCEPT !.plan = DefaultPlan], NoExc, NoCalls)
  ELSE IF ~reply.ok
    THEN StepResult(s, Exc(reply.msg), [NoCalls EXCEPT !.llm = 1])
  ELSE StepResult([s EXCEPT !.plan = ParsedPlan(reply.v)],
                  NoExc, [NoCalls EXCEPT !.llm = 1])

\* 3. execute_action ---------------------------------------------------------
\* obj[0] and obj[-1] on a list or a str; anything else cannot be indexed so
Indexable(v) == v.t \in {"list", "str"}
First(v) == IF v.t = "list" THEN v.items[1] ELSE JStr(<<v.s[1]>>)
Last(v) ==
  IF v.t = "list" THEN v.items[Len(v.items)] ELSE JStr(<<v.s[Len(v.s)]>>)
Length(v) == IF v.t = "list" THEN Len(v.items) ELSE Len(v.s)

\* the range that ends on the day it starts, whatever the list holds
DateRange_SingleDay(days) ==
  JDict([type |-> JStr(<<"date_range">>),
         start_date |-> IF Truthy(days) THEN First(days) ELSE JNull,
         end_date |-> IF Truthy(days) THEN First(days) ELSE JNull])

\* the date_setting built when the raw params carry no dict-valued one
DateRange(days) ==
  JDict([type |-> JStr(<<"date_range">>),
         start_date |-> IF Truthy(days) THEN First(days) ELSE JNull,
         end_date |-> IF Length(days) > 1 THEN Last(days)
                      ELSE IF Truthy(days) THEN First(days) ELSE JNull])

DateSetting(raw) ==
  IF Truthy(Get(raw, "date_setting", JNull)) /\ Get(raw, "date_setting", JNull).t = "dict"
    THEN raw.d["date_setting"]
    ELSE DateRange(PyOr(Get(raw, "availability_days", JNull), JList(<<>>)))

Location(raw) ==
  IF Truthy(Get(raw, "location", JNull)) /\ Get(raw, "location", JNull).t = "dict"
    THEN raw.d["location"]
    ELSE JDict([kind |-> PyOr(Get(raw, "location_kind", JNull), JStr(<<"physical">>)),
                location |-> PyOr(PyOr(Get(raw, "location_details", JNull),
                                       Get(raw, "event_description", JNull)),
                                  JStr(<<>>)),
                additional_info |-> PyOr(Get(raw, "event_description", JNull), JStr(<<>>))])

\* params of create_one_off_event_type, mapped into the Calendly API schema
OneOffParams(raw, e) ==
  JDict([name |-> PyOr(Get(raw, "event_name", JNull), Get(raw, "name", JNull)),
         host |-> PyOr(Get(raw, "host", JNull), e.user_uri),
         co_hosts |-> PyOr(Get(raw, "co_hosts", JNull), JList(<<>>)),
         duration |-> Get(raw, "duration", JNull),
         timezone |-> PyOr(PyOr(Get(raw, "timezone", JNull), e.timezone), JStr(<<"UTC">>)),
         date_setting |-> DateSetting(raw),
         location |-> Location(raw)])

\* whether the mapping itself raises: raw.get on a non-dict, days[0] on a
\* value that cannot be indexed
OneOffRaises(params) ==
  LET raw == PyOr(params, EmptyDict)
      ds == IF raw.t = "dict" THEN Get(raw, "date_setting", JNull) ELSE JNull
      days == IF raw.t = "dict"
                THEN PyOr(Get(raw, "availability_days", JNull), JList(<<>>))
                ELSE JList(<<>>)
  IN  \/ raw.t # "dict"
      \/ ~(Truthy(ds) /\ ds.t = "dict") /\ ~Indexable(days)
OneOffError(params) ==
  IF PyOr(params, EmptyDict).t # "dict" THEN AttributeError
  ELSE IF PyOr(Get(PyOr(params, EmptyDict), "availability_days", JNull), JList(<<>>)).t = "dict"
    THEN KeyError ELSE TypeError

\* whether a value can be a dict key
Hashable(v) == v.t \notin {"list", "dict"}

\* tools_map.get(action)
HasTool(map, action) == action.t = "str" /\ action.s \in DOMAIN map.d

\* state.get("_tool_map") is used when it is there and not empty
Cached(s) == s.tool_map.t = "map" /\ DOMAIN s.tool_map.d # {}

\* the string stored for a result of the tool
ResultText(result) == IF result.t = "str" THEN result.s ELSE Dumps(result)

ToolNotAvailable(action) == <<"Tool '">> \o PyStr(action) \o <<"' not available">>
ErrorText(msg) == <<"Error: ">> \o msg

\* the invocation without its try block: the tool's exception leaves the step
Invoke_NoCatch(s, invocation, fetched) ==
  LET calls == [NoCalls EXCEPT !.fetch = fetched, !.tool = 1] IN
  IF ~invocation.ok
    THEN StepResult(s, Exc(invocation.msg),
                    [calls EXCEPT !.tool_raised = TRUE, !.tool_msg = invocation.msg])
  ELSE IF ~Serialisable(invocation.v)
    THEN StepResult(s, Exc(TypeError), calls)
  ELSE StepResult([s EXCEPT !.calendly_data = ResultText(invocation.v),
                            !.mcp_result = invocation.v],
                  NoExc, calls)

\* the try block around tool_obj.ainvoke(params)
Invoke(s, invocation, fetched) ==
  LET calls == [NoCalls EXCEPT !.fetch = fetched, !.tool = 1] IN
  IF ~invocation.ok
    THEN StepResult([s EXCEPT !.calendly_data = ErrorText(invocation.msg),
                              !.error = invocation.msg],
                    NoExc, [calls EXCEPT !.tool_raised = TRUE, !.tool_msg = invocation.msg])
  ELSE IF ~Serialisable(invocation.v)
    THEN StepResult([s EXCEPT !.calendly_data = ErrorText(TypeError),
                              !.error = TypeError],
                    NoExc, calls)
  ELSE StepResult([s EXCEPT !.calendly_data = ResultText(invocation.v),
                            !.mcp_result = invocation.v],
                  NoExc, calls)

\* the lookup in the tool map and what follows it
Dispatch(s, action, map, invocation, fetched) ==
  IF ~Hashable(action)
    THEN StepResult(s, Exc(TypeError), [NoCalls EXCEPT !.fetch = fetched])
  ELSE IF ~HasTool(map, action)
    THEN StepResult([s EXCEPT !.calendly_data = ToolNotAvailable(action)],
                    NoExc, [NoCalls EXCEPT !.fetch = fetched])
  ELSE Invoke(s, invocation, fetched)

execute_action(s, e, listing, invocation) ==
  IF s.plan.t # "dict"
    THEN StepResult(s, Exc(AttributeError), NoCalls)
  ELSE
    LET action == Get(s.plan, "action", JStr(GCU))
        params == Get(s.plan, "params", EmptyDict)
    IN  IF action = JStr(COO) /\ OneOffRaises(params)
          THEN StepResult(s, Exc(OneOffError(params)), NoCalls)
        ELSE IF Cached(s)
          THEN Dispatch(s, action, s.tool_map, invocation, 0)
        ELSE IF ~listing.ok
          THEN StepResult(s, Exc(listing.msg), [NoCalls EXCEPT !.fetch = 1])
        ELSE Dispatch(s, action, ToolMap(listing.v), invocation, 1)

\* the params the tool is invoked with
InvokedParams(s, e) ==
  IF Get(s.plan, "action", JStr(GCU)) = JStr(COO)
    THEN OneOffParams(PyOr(Get(s.plan, "params", EmptyDict), EmptyDict), e)
    ELSE Get(s.plan, "params", EmptyDict)

\* 4. generate_response ------------------------------------------------------
generate_response(s, reply) ==
  IF s.llm = 0
    THEN StepResult([s EXCEPT !.output = s.calendly_data], NoExc, NoCalls)
  ELSE IF s.plan.t # "dict"
    THEN StepResult(s, Exc(AttributeError), NoCalls)
  ELSE IF ~reply.ok
    THEN StepResult(s, Exc(reply.msg), [NoCalls EXCEPT !.llm = 1])
  ELSE StepResult([s EXCEPT !.output = Strip(reply.v)],
                  NoExc, [NoCalls EXCEPT !.llm = 1])

\* ------------------------------------------------------------------- state
VARIABLES
  phase,       \* "boot", "serving", "down" (server); "cli" (__main__); "callback"
  startup,     \* how startup_event's loading of the tools ended, "none" when
               \* the hook has not run
  env,         \* the environment variables the code reads
  mcp_client,  \* server.mcp_client: 0 is None, else the instance constructed
  llm,         \* server.llm: 0 is None, else the instance constructed
  lock,        \* _init_lock: 0 when free, else the request holding it
  waiters,     \* requests suspended in _init_lock.acquire(), oldest first
  nclients,    \* MultiServerMCPClient instances constructed so far
  nllm,        \* AzureChatOpenAI instances constructed so far
  pc,          \* where each request is
  question,    \* question_req.question of each request
  new_client,  \* ensure_mcp_client's local new_client of each request
  sess,        \* the CalendlyState of each request's run
  status,      \* HTTP status answered (0: none yet)
  detail,      \* the answer of a 200, the detail of an HTTPException
  obs          \* what each run did: steps entered, calls made

vars ==
  << phase, startup, env, mcp_client, llm, lock, waiters, nclients, nllm, pc,
     question, new_client, sess, status, detail, obs >>

NoSession == [t |-> "none"]
NoObs ==
  [ trace |-> <<>>, fetch |-> 0, llm |-> 0, tool |-> 0, tool_raised |-> FALSE,
    tool_msg |-> <<>>, raised_in |-> "", returned |-> 0, reply |-> Fails(<<>>),
    params |-> JNull, waited |-> FALSE, init_ok |-> 0, given |-> 0 ]

\* the nodes of build_calendly_graph in the order of its edges
Steps == <<"cache_tools", "classify", "execute", "respond">>
Final == {"done", "failed", "rejected", "unavailable"}

\* the graph with an edge from respond back to the entry point
Edge_BackEdge(node) ==
  CASE node = "cache_tools" -> "classify"
    [] node = "classify" -> "execute"
    [] node = "execute" -> "respond"
    [] node = "respond" -> "cache_tools"

\* g.set_entry_point and the g.add_edge calls; "done" is END
EntryPoint == "cache_tools"
Edge(node) ==
  CASE node = "cache_tools" -> "classify"
    [] node = "classify" -> "execute"
    [] node = "execute" -> "respond"
    [] node = "respond" -> "done"

\* ------------------------------------------------------- inputs enumerated
ToolsDown == <<"tools down">>
LLMDown == <<"llm down">>
Boom == <<"boom">>

SrvQuestions == { <<>>, <<" ">>, <<"Who am I?">> }
SrvListings == { Ok(<<GCU>>), Ok(<<>>), Fails(ToolsDown) }
SrvPlans == { Ok(Dumps(DefaultPlan)), Ok(Dumps(JNum(42))), Fails(LLMDown) }
SrvInvocations == { Ok(JStr(<<"al">>)), Fails(Boom) }
SrvAnswers == { Ok(<<"You are al">>), Fails(LLMDown) }

CliQuestions == { <<"Who am I?">>, <<" ", "Book", " ", "a", " ", "sync">> }
CliListings ==
  { Ok(<<>>), Ok(<<GCU>>), Ok(<<GCU, COO>>), Ok(<<GCU, LIST_EVENTS, GCU>>),
    Fails(ToolsDown), Fails(<<>>) }
CliPlans ==
  { Ok(Dumps(v)) : v \in JSONValues }
    \cup { Ok(<<"Sure!", " ", "{">>), Ok(<<"{", "\"", "action", "\"">>), Ok(<<>>),
           Fails(LLMDown) }
CliInvocations ==
  { Ok(JStr(<<"al">>)), Ok(JStr(<<>>)), Ok(JDict([login |-> JStr(<<"al">>)])),
    Ok(PyObject), Fails(Boom), Fails(<<>>) }
CliAnswers ==
  { Ok(<<"You", " ", "are", " ", "al">>), Ok(<<" ", "ok", " ">>), Ok(<<" ">>),
    Ok(<<>>), Fails(LLMDown) }

\* ------------------------------------------------------------ running a step
\* io: the model's reply (classify), the params the tool is called with (execute)
Observe(o, step, res, io) ==
  [ o EXCEPT !.trace = Append(@, step),
             !.fetch = @ + res.calls.fetch,
             !.llm = @ + res.calls.llm,
             !.tool = @ + res.calls.tool,
             !.tool_raised = @ \/ res.calls.tool_raised,
             !.tool_msg = IF res.calls.tool_raised THEN res.calls.tool_msg ELSE @,
             !.reply = IF step = "classify" /\ res.calls.llm = 1 THEN io ELSE @,
             !.raised_in = IF res.exc.raised THEN step ELSE @,
             !.returned = IF res.exc.raised THEN @ ELSE @ + 1,
             !.params = IF res.calls.tool = 1 THEN io ELSE @ ]

\* the boundary answering an exception with a fixed text instead of str(e)
Boundary_FixedDetail(r, res, next) ==
  IF res.exc.raised
    THEN /\ pc' = [pc EXCEPT ![r] = "failed"]
         /\ status' = [status EXCEPT ![r] = IF phase = "serving" THEN 500 ELSE @]
         /\ detail' = [detail EXCEPT ![r] = <<"Internal Server Error">>]
  ELSE IF next = "done"
    THEN /\ pc' = [pc EXCEPT ![r] = "done"]
         /\ status' = [status EXCEPT ![r] = IF phase = "serving" THEN 200 ELSE @]
         /\ detail' = [detail EXCEPT ![r] = res.s.output]
  ELSE /\ pc' = [pc EXCEPT ![r] = next]
       /\ UNCHANGED << status, detail >>

\* what the caller of run_calendly_workflow does with its outcome:
\* ask_calendly answers 200 with the output or 500 with str(e); __main__
\* prints the answer or lets the exception end the program
Boundary(r, res, next) ==
  IF res.exc.raised
    THEN /\ pc' = [pc EXCEPT ![r] = "failed"]
         /\ status' = [status EXCEPT ![r] = IF phase = "serving" THEN 500 ELSE @]
         /\ detail' = [detail EXCEPT ![r] = res.exc.msg]
  ELSE IF next = "done"
    THEN /\ pc' = [pc EXCEPT ![r] = "done"]
         /\ status' = [status EXCEPT ![r] = IF phase = "serving" THEN 200 ELSE @]
         /\ detail' = [detail EXCEPT ![r] = res.s.output]
  ELSE /\ pc' = [pc EXCEPT ![r] = next]
       /\ UNCHANGED << status, detail >>

\* one node of the compiled graph: the callback runs, then the edge is taken
RunStep(r, step, res, next, io) ==
  /\ sess' = [sess EXCEPT ![r] = res.s]
  /\ obs' = [obs EXCEPT ![r] = Observe(@, step, res, io)]
  /\ Boundary(r, res, next)
  /\ UNCHANGED << phase, startup, env, mcp_client, llm, lock, waiters, nclients, nllm,
                  question, new_client >>

CacheToolsStep(r, listings) ==
  /\ pc[r] = "cache_tools"
  /\ \E listing \in listings :
       RunStep(r, "cache_tools", cache_tools(sess[r], listing), Edge("cache_tools"), JNull)

ClassifyStep(r, replies) ==
  /\ pc[r] = "classify"
  /\ \E reply \in replies :
       RunStep(r, "classify", classify_question(sess[r], reply), Edge("classify"), reply)

ExecuteStep(r, listings, invocations) ==
  /\ pc[r] = "execute"
  /\ \E listing \in listings, invocation \in invocations :
       RunStep(r, "execute", execute_action(sess[r], env, listing, invocation),
               Edge("execute"), InvokedParams(sess[r], env))

RespondStep(r, replies) ==
  /\ pc[r] = "respond"
  /\ \E reply \in replies :
       RunStep(r, "respond", generate_response(sess[r], reply), Edge("respond"), JNull)

\* ------------------------------------------------------------- the server
\* run_calendly_workflow(mcp_client=client, user_question=..., llm=llm)
StartRun(r, client, llmHandle, q) ==
  /\ sess' = [sess EXCEPT ![r] = InitialState(client, q, llmHandle)]
  /\ pc' = [pc EXCEPT ![r] = EntryPoint]

\* the first test of ensure_mcp_client, made without the lock
ClientReady == mcp_client # 0
\* the initialisation without the second test
RecheckHit_Skipped == FALSE
\* the test repeated once the lock is held
RecheckHit == mcp_client # 0
\* _init_lock.acquire() returns at once when the lock is free and nobody waits
LockFree == lock = 0 /\ waiters = <<>>

\* new_client = MultiServerMCPClient(mcp_config), then await its get_tools()
Construct(r) ==
  /\ nclients' = nclients + 1
  /\ new_client' = [new_client EXCEPT ![r] = nclients + 1]
  /\ pc' = [pc EXCEPT ![r] = "init"]
  /\ lock' = r

\* startup_event: the client is assigned, then its tools are loaded; the
\* model is built only when they loaded
StartupAssign(ok) ==
  /\ startup' = IF ok THEN "loaded" ELSE "failed"
  /\ mcp_client' = nclients + 1
  /\ nclients' = nclients + 1
  /\ IF ok /\ env.azure
       THEN llm' = nllm + 1 /\ nllm' = nllm + 1
       ELSE UNCHANGED << llm, nllm >>

Startup ==
  /\ phase = "boot"
  /\ phase' = "serving"
  /\ \E ok \in BOOLEAN : StartupAssign(ok)
  /\ UNCHANGED << env, lock, waiters, pc, question, new_client, sess, status,
                  detail, obs >>

\* a cold start that serves the first request without the startup hook having
\* run (the case ensure_mcp_client is written for)
ColdStart ==
  /\ phase = "boot"
  /\ phase' = "serving"
  /\ UNCHANGED << startup, env, mcp_client, llm, lock, waiters, nclients, nllm,
                  pc, question, new_client, sess, status, detail, obs >>

\* GET /health: what the endpoint answers in the present state
health_check ==
  [ status |-> "healthy",
    mcp_client |-> IF mcp_client # 0 THEN "connected" ELSE "not initialized",
    llm |-> IF llm # 0 THEN "available" ELSE "not configured" ]

\* the guard without strip()
EmptyQuestion_NoStrip(q) == q = <<>>
\* the guard of ask_calendly
EmptyQuestion(q) == Strip(q) = <<>>

\* POST /calendly/ask, up to its first suspension
AskCalendly(r) ==
  /\ phase = "serving"
  /\ pc[r] = "new"
  /\ \E q \in SrvQuestions :
       /\ question' = [question EXCEPT ![r] = q]
       /\ IF EmptyQuestion(q)
            THEN /\ pc' = [pc EXCEPT ![r] = "rejected"]
                 /\ status' = [status EXCEPT ![r] = 400]
                 /\ detail' = [detail EXCEPT ![r] = <<"Question cannot be empty.">>]
                 /\ UNCHANGED << lock, waiters, nclients, new_client, sess, obs >>
          ELSE IF ClientReady
            THEN /\ StartRun(r, mcp_client, llm, q)
                 /\ obs' = [obs EXCEPT ![r].given = mcp_client]
                 /\ UNCHANGED << lock, waiters, nclients, new_client, status, detail >>
          ELSE IF LockFree
            THEN /\ Construct(r)
                 /\ UNCHANGED << waiters, sess, status, detail, obs >>
          ELSE /\ waiters' = Append(waiters, r)
               /\ pc' = [pc EXCEPT ![r] = "wait_lock"]
               /\ obs' = [obs EXCEPT ![r].waited = TRUE]
               /\ UNCHANGED << lock, nclients, new_client, sess, status, detail >>
  /\ UNCHANGED << phase, startup, env, mcp_client, llm, nllm >>

\* the oldest waiter is given the lock and tests the client again
LockAcquired(r) ==
  /\ pc[r] = "wait_lock"
  /\ lock = 0
  /\ waiters # <<>> /\ Head(waiters) = r
  /\ waiters' = Tail(waiters)
  /\ IF RecheckHit
       THEN /\ StartRun(r, mcp_client, llm, question[r])
            /\ obs' = [obs EXCEPT ![r].given = mcp_client]
            /\ UNCHANGED << lock, nclients, new_client >>
       ELSE /\ Construct(r)
            /\ UNCHANGED << sess, obs >>
  /\ UNCHANGED << phase, startup, env, mcp_client, llm, nllm, question, status, detail >>

\* await new_client.get_tools() returned: the globals are set, the lock is
\* released and the pipeline is started with them
InitLoaded(r) ==
  /\ pc[r] = "init"
  /\ mcp_client' = new_client[r]
  /\ IF llm = 0 /\ env.azure
       THEN llm' = nllm + 1 /\ nllm' = nllm + 1
       ELSE UNCHANGED << llm, nllm >>
  /\ lock' = 0
  /\ StartRun(r, new_client[r], llm', question[r])
  /\ obs' = [obs EXCEPT ![r].given = new_client[r], ![r].init_ok = 1]
  /\ UNCHANGED << phase, startup, env, waiters, nclients, question, new_client, status, detail >>

\* the failure answered without leaving the "async with" block
InitFailed_KeepsLock(r) ==
  /\ pc[r] = "init"
  /\ pc' = [pc EXCEPT ![r] = "unavailable"]
  /\ status' = [status EXCEPT ![r] = 503]
  /\ detail' = [detail EXCEPT ![r] = <<"Failed to connect to Calendly MCP server.">>]
  /\ UNCHANGED << phase, startup, env, mcp_client, llm, lock, waiters, nclients, nllm,
                  question, new_client, sess, obs >>

\* await new_client.get_tools() raised: 503, the lock is released
InitFailed(r) ==
  /\ pc[r] = "init"
  /\ pc' = [pc EXCEPT ![r] = "unavailable"]
  /\ status' = [status EXCEPT ![r] = 503]
  /\ detail' = [detail EXCEPT ![r] = <<"Failed to connect to Calendly MCP server.">>]
  /\ lock' = 0
  /\ UNCHANGED << phase, startup, env, mcp_client, llm, waiters, nclients, nllm, question,
                  new_client, sess, obs >>

SrvCacheTools(r) == CacheToolsStep(r, SrvListings)
SrvClassify(r) == ClassifyStep(r, SrvPlans)
SrvExecute(r) == ExecuteStep(r, SrvListings, SrvInvocations)
SrvRespond(r) == RespondStep(r, SrvAnswers)

\* shutdown_event, once no request is in flight
Shutdown ==
  /\ phase = "serving"
  /\ \A r \in Requests : pc[r] \in Final \cup {"new"}
  /\ phase' = "down"
  /\ mcp_client' = 0
  /\ UNCHANGED << startup, env, llm, lock, waiters, nclients, nllm, pc, question,
                  new_client, sess, status, detail, obs >>

Envs(uris) == [azure : BOOLEAN, user_uri : uris, timezone : {JNull}]

InitCommon ==
  /\ startup = "none"
  /\ mcp_client = 0 /\ llm = 0 /\ lock = 0 /\ waiters = <<>>
  /\ nclients = 0 /\ nllm = 0
  /\ pc = [r \in Requests |-> "new"]
  /\ question = [r \in Requests |-> <<>>]
  /\ new_client = [r \in Requests |-> 0]
  /\ sess = [r \in Requests |-> NoSession]
  /\ status = [r \in Requests |-> 0]
  /\ detail = [r \in Requests |-> <<>>]
  /\ obs = [r \in Requests |-> NoObs]

Init ==
  /\ phase = "boot"
  /\ env \in Envs({JNull})
  /\ InitCommon

Next ==
  \/ Startup
  \/ ColdStart
  \/ Shutdown
  \/ \E r \in Requests :
       \/ AskCalendly(r)
       \/ LockAcquired(r)
       \/ InitLoaded(r)
       \/ InitFailed(r)
       \/ SrvCacheTools(r)
       \/ SrvClassify(r)
       \/ SrvExecute(r)
       \/ SrvRespond(r)

Spec == Init /\ [][Next]_vars

\* The event loop runs a task that is ready: the waiter the lock was handed to
\* resumes, and an awaited get_tools() that has ended, by returning or by
\* raising, resumes the initialisation that awaits it.
SpecLive ==
  /\ Init
  /\ [][Next]_vars
  /\ \A r \in Requests :
       /\ WF_vars(LockAcquired(r))
       /\ WF_vars(InitLoaded(r) \/ InitFailed(r))

\* ------------------------------------------------- the command-line runner
\* __main__: a non-empty question, the optional model, one run of the workflow
CliMain ==
  /\ phase = "cli"
  /\ pc[1] = "new"
  /\ \E q \in CliQuestions :
       /\ ~EmptyQuestion(q)
       /\ question' = [question EXCEPT ![1] = q]
       /\ StartRun(1, 1, IF env.azure THEN 1 ELSE 0, q)
  /\ UNCHANGED << phase, startup, env, mcp_client, llm, lock, waiters, nclients, nllm,
                  new_client, status, detail, obs >>

CliCacheTools == CacheToolsStep(1, CliListings)
CliClassify == ClassifyStep(1, CliPlans)
CliExecute == ExecuteStep(1, CliListings, CliInvocations)
CliRespond == RespondStep(1, CliAnswers)

InitPipeline ==
  /\ phase = "cli"
  /\ env \in Envs({JNull, JStr(<<"https://api.calendly.com/users/me">>)})
  /\ InitCommon

NextPipeline ==
  \/ CliMain
  \/ CliCacheTools
  \/ CliClassify
  \/ CliExecute
  \/ CliRespond

SpecPipeline == InitPipeline /\ [][NextPipeline]_vars

\* ------------------------------------------- the cache_tools callback alone
\* cache_tools called again and again on one session; an exception leaves the
\* session as it was and goes to the caller
CallCacheTools ==
  /\ phase = "callback"
  /\ Len(obs[1].trace) < MaxCacheCalls
  /\ \E listing \in CliListings :
       /\ sess' = [sess EXCEPT ![1] = cache_tools(@, listing).s]
       /\ obs' = [obs EXCEPT ![1] =
                    Observe(@, "cache_tools", cache_tools(sess[1], listing), JNull)]
  /\ UNCHANGED << phase, startup, env, mcp_client, llm, lock, waiters, nclients, nllm, pc,
                  question, new_client, status, detail >>

InitCache ==
  /\ phase = "callback"
  /\ env \in Envs({JNull})
  /\ startup = "none"
  /\ mcp_client = 0 /\ llm = 0 /\ lock = 0 /\ waiters = <<>>
  /\ nclients = 0 /\ nllm = 0
  /\ pc = [r \in Requests |-> "new"]
  /\ question \in [Requests -> CliQuestions]
  /\ new_client = [r \in Requests |-> 0]
  /\ sess = [r \in Requests |->
               IF r = 1 THEN InitialState(1, question[1], IF env.azure THEN 1 ELSE 0)
                        ELSE NoSession]
  /\ status = [r \in Requests |-> 0]
  /\ detail = [r \in Requests |-> <<>>]
  /\ obs = [r \in Requests |-> NoObs]

NextCache == CallCacheTools

SpecCache == InitCache /\ [][NextCache]_vars

\* ------------------------------ execute_action on one-off event type plans
\* the longest availability_days list a plan carries
MaxDays == 3
DayNames == << "2024-01-01", "2024-01-05", "2024-01-09", "2024-01-12", "2024-01-20" >>
Days(n) == JList([i \in 1..n |-> JStr(<<DayNames[i]>>)])

NoKeys == [k \in {} |-> JNull]
RawEventNames ==
  { NoKeys, [event_name |-> JStr(<<>>)], [event_name |-> JStr(<<"Sync">>)] }
RawNames == { NoKeys, [name |-> JStr(<<"Standup">>)] }
RawDays ==
  { NoKeys, [availability_days |-> JNull], [availability_days |-> JNum(3)],
    [availability_days |-> JStr(<<"2", "0", "2", "4">>)] }
    \cup { [availability_days |-> Days(n)] : n \in 0..MaxDays }
RawDateSettings ==
  { NoKeys, [date_setting |-> EmptyDict],
    [date_setting |-> JStr(<<"tomorrow">>)],
    [date_setting |-> JDict([type |-> JStr(<<"spot">>)])] }
\* the params of a plan for create_one_off_event_type, as the model writes them
RawParams ==
  { JDict(a @@ b @@ c @@ d) :
      a \in RawEventNames, b \in RawNames, c \in RawDays, d \in RawDateSettings }

\* the session as cache_tools and classify_question leave it for execute_action
Classified(s, tools, plan) ==
  [s EXCEPT !.available_tools = tools, !.tool_map = ToolMap(tools), !.plan = plan]

InitRemap ==
  /\ phase = "cli"
  /\ env \in Envs({JStr(<<"https://api.calendly.com/users/me">>)})
  /\ startup = "none"
  /\ mcp_client = 0 /\ llm = 0 /\ lock = 0 /\ waiters = <<>>
  /\ nclients = 0 /\ nllm = 0
  /\ pc = [r \in Requests |-> IF r = 1 THEN "execute" ELSE "new"]
  /\ question = [r \in Requests |-> IF r = 1 THEN <<"Book a sync">> ELSE <<>>]
  /\ new_client = [r \in Requests |-> 0]
  /\ \E raw \in RawParams, tools \in { <<GCU, COO>>, <<GCU>> } :
       sess = [r \in Requests |->
                 IF r = 1
                   THEN Classified(InitialState(1, question[1], IF env.azure THEN 1 ELSE 0),
                                   tools, JDict([action |-> JStr(COO), params |-> raw]))
                   ELSE NoSession]
  /\ status = [r \in Requests |-> 0]
  /\ detail = [r \in Requests |-> <<>>]
  /\ obs = [r \in Requests |->
              IF r = 1
                THEN [NoObs EXCEPT !.trace = <<"cache_tools", "classify">>,
                                   !.returned = 2, !.fetch = 1,
                                   !.llm = IF env.azure THEN 1 ELSE 0]
                ELSE NoObs]

NextRemap ==
  \/ CliExecute
  \/ CliRespond

SpecRemap == InitRemap /\ [][NextRemap]_vars

\* ================================================================== claims
Entered(r, step) == \E i \in DOMAIN obs[r].trace : obs[r].trace[i] = step
\* the step returned to the graph without raising
Completed(r, step) == Entered(r, step) /\ obs[r].raised_in # step
ActionOf(s) == Get(s.plan, "action", JStr(GCU))

\* C1: the steps a run has entered are always a prefix of cache_tools,
\* classify, execute, respond, each at most once; a run waiting at a step has
\* seen every earlier step return; and the terminal state is entered only
\* after respond has returned, after which nothing more runs.
C1_FixedOrder ==
  \A r \in Requests :
    /\ Len(obs[r].trace) <= Len(Steps)
    /\ obs[r].trace = SubSeq(Steps, 1, Len(obs[r].trace))
    /\ pc[r] \in SeqRange(Steps) =>
         /\ Len(obs[r].trace) < Len(Steps)
         /\ pc[r] = Steps[Len(obs[r].trace) + 1]
         /\ obs[r].returned = Len(obs[r].trace)
    /\ pc[r] = "done" <=> (obs[r].trace = Steps /\ obs[r].returned = Len(Steps))
    /\ pc[r] = "failed" =>
         /\ obs[r].trace # <<>>
         /\ obs[r].raised_in = obs[r].trace[Len(obs[r].trace)]
         /\ obs[r].returned = Len(obs[r].trace) - 1
C1_Witness == pc[1] = "done" /\ obs[1].trace = Steps

\* C2 as stated: once the tool's invocation has raised with message m, the
\* error string and m are stored and the run is never aborted.
C2_Original ==
  \A r \in Requests :
    obs[r].tool_raised =>
      /\ sess[r].calendly_data = ErrorText(obs[r].tool_msg)
      /\ sess[r].error = obs[r].tool_msg
      /\ pc[r] # "failed"
\* C2 amended: once the tool's invocation has raised with message m, execute
\* has returned without raising, "Error: m" is in calendly_data and m in
\* error, the run is at respond or beyond it with respond able to run, and the
\* only way it misses the terminal state is the model call of respond raising.
C2_ErrorIsData ==
  \A r \in Requests :
    obs[r].tool_raised =>
      /\ Completed(r, "execute")
      /\ sess[r].calendly_data = ErrorText(obs[r].tool_msg)
      /\ sess[r].error = obs[r].tool_msg
      /\ pc[r] \in {"respond", "done", "failed"}
      /\ pc[r] = "respond" => ENABLED CliRespond
      /\ pc[r] = "failed" => (obs[r].raised_in = "respond" /\ sess[r].llm # 0)
      /\ sess[r].llm = 0 => pc[r] # "failed"
C2_Witness ==
  /\ obs[1].tool_raised /\ obs[1].tool_msg = Boom
  /\ pc[1] = "done"
  /\ sess[1].error = Boom

\* C3: a run whose plan names an action that no tool list offers, once execute
\* has been entered, has not raised in execute, has invoked no tool, and holds
\* the "Tool '<action>' not available" string.
ListedNames == UNION { SeqRange(l.v) : l \in { x \in CliListings : x.ok } }
C3_UnknownAction(r) ==
  /\ Entered(r, "execute")
  /\ sess[r].plan.t = "dict"
  /\ ActionOf(sess[r]).t = "str"
  /\ ActionOf(sess[r]).s \notin ListedNames
C3_NeverRaises ==
  \A r \in Requests :
    C3_UnknownAction(r) =>
      /\ obs[r].raised_in # "execute"
      /\ obs[r].tool = 0
      /\ sess[r].calendly_data = ToolNotAvailable(ActionOf(sess[r]))

\* C4: with a model configured, once classify has returned, the plan is an
\* object (a dict the executor can call .get on), and it is exactly the
\* default plan whenever the model's reply was not JSON.
C4_PlanIsObject ==
  \A r \in Requests :
    (sess[r] # NoSession /\ sess[r].llm # 0 /\ Completed(r, "classify")) =>
      /\ sess[r].plan.t = "dict"
      /\ ~json_loads(obs[r].reply.v).ok => sess[r].plan = DefaultPlan

\* C5: in a run without a model, the plan after classify is the default plan
\* whatever the question and the tool list, no model call is ever made, and
\* the output at the terminal state is calendly_data verbatim, which after a
\* successful invocation is the text of the tool's result.
C5_NoModel ==
  \A r \in Requests :
    (sess[r] # NoSession /\ sess[r].llm = 0) =>
      /\ obs[r].llm = 0
      /\ Completed(r, "classify") => sess[r].plan = DefaultPlan
      /\ pc[r] = "done" =>
           /\ sess[r].output = sess[r].calendly_data
           /\ (obs[r].tool = 1 /\ sess[r].error = <<>> /\ ~obs[r].tool_raised) =>
                sess[r].output = ResultText(sess[r].mcp_result)
C5_Witness ==
  /\ pc[1] = "done" /\ sess[1].llm = 0
  /\ question[1] = <<" ", "Book", " ", "a", " ", "sync">>
  /\ obs[1].tool = 1
  /\ sess[1].output = Dumps(JDict([login |-> JStr(<<"al">>)]))

\* C6 as stated: once one invocation of cache_tools has returned, a further
\* invocation fetches nothing and changes nothing, whatever list was returned.
C6_Original ==
  [][obs[1].returned >= 1 => (obs'[1].fetch = obs[1].fetch /\ sess' = sess)]_vars
\* C6 amended: once an invocation of cache_tools has stored a non-empty tool
\* list, a further invocation fetches nothing and leaves available_tools and
\* the tool map unchanged.
C6_Idempotent ==
  [][sess[1].available_tools # <<>> =>
       (obs'[1].fetch = obs[1].fetch /\ sess' = sess)]_vars
C6_Witness ==
  /\ phase = "callback"
  /\ Len(obs[1].trace) >= 2 /\ obs[1].returned >= 2
  /\ obs[1].fetch = 1
  /\ sess[1].available_tools = <<GCU, COO>>

\* C7: at most one initialisation inside ensure_mcp_client succeeds, it
\* constructed and loaded the one client it installs, and all requests that
\* got a client from ensure_mcp_client got the same instance.
C7_SingleClient ==
  /\ Cardinality({ r \in Requests : obs[r].init_ok = 1 }) <= 1
  /\ \A r \in Requests : obs[r].init_ok = 1 => obs[r].given = new_client[r]
  /\ \A r1, r2 \in Requests :
       (obs[r1].given # 0 /\ obs[r2].given # 0) => obs[r1].given = obs[r2].given
  /\ \A r \in Requests :
       (obs[r].given # 0 /\ phase = "serving") => obs[r].given = mcp_client
C7_Witness ==
  \E r1, r2 \in Requests :
    /\ obs[r1].init_ok = 1
    /\ obs[r2].waited /\ obs[r2].given = obs[r1].given
    /\ nclients = 1

C9_EmptyRejected ==
  \A r \in Requests :
    (pc[r] # "new" /\ Strip(question[r]) = <<>>) =>
      /\ pc[r] = "rejected" /\ status[r] = 400
      /\ sess[r] = NoSession /\ obs[r] = NoObs
      /\ new_client[r] = 0 /\ lock # r
      /\ \A i \in DOMAIN waiters : waiters[i] # r
C9_Witness ==
  \E r \in Requests : question[r] = <<" ">> /\ status[r] = 400

\* the exception each collaborator raises in the server's inputs
RaisedBy(step) == IF step = "cache_tools" THEN ToolsDown ELSE LLMDown

\* C10 as stated: an exception in cache_tools, classify or respond ends the
\* run with 500 and the exception's string, and a run whose tool invocation
\* failed never ends with an HTTP error status.
C10_Original ==
  \A r \in Requests :
    /\ obs[r].raised_in \in {"cache_tools", "classify", "respond"} =>
         (pc[r] = "failed" /\ status[r] = 500 /\ detail[r] = RaisedBy(obs[r].raised_in))
    /\ obs[r].tool_raised => status[r] \in {0, 200}
\* C10 amended: an exception in cache_tools, classify or respond ends the run
\* with 500 and the exception's string as the detail; the failed tool
\* invocation is never what raises: a run whose tool invocation failed ends
\* 200 unless the model call of respond raises afterwards.
C10_Propagation ==
  \A r \in Requests :
    /\ obs[r].raised_in \in {"cache_tools", "classify", "respond"} =>
         (pc[r] = "failed" /\ status[r] = 500 /\ detail[r] = RaisedBy(obs[r].raised_in))
    /\ status[r] = 500 => obs[r].raised_in # ""
    /\ obs[r].tool_raised =>
         /\ obs[r].raised_in \in {"", "respond"}
         /\ status[r] \in {0, 200, 500}
         /\ status[r] = 500 => obs[r].raised_in = "respond"
         /\ pc[r] = "done" => (status[r] = 200 /\ detail[r] = sess[r].output)
C10_Witness ==
  \E r1, r2 \in Requests :
    /\ obs[r1].raised_in = "classify" /\ status[r1] = 500 /\ detail[r1] = LLMDown
    /\ obs[r2].tool_raised /\ status[r2] = 200

\* C11: whenever create_one_off_event_type is invoked on raw params without a
\* dict-valued date_setting and with availability_days a list (or missing or
\* null), the tool receives date_setting = {type: "date_range", start_date:
\* first entry, end_date: last entry}, both null for a missing or empty list
\* and both the one entry for a one-entry list; and it receives as name the
\* event_name when there is one, else the name.
C11_OneOffRemap ==
  \A r \in Requests :
    (/\ obs[r].tool = 1
     /\ sess[r].plan.t = "dict"
     /\ ActionOf(sess[r]) = JStr(COO)
     /\ Get(sess[r].plan, "params", EmptyDict).t = "dict") =>
      LET raw == Get(sess[r].plan, "params", EmptyDict).d
          given == IF "availability_days" \in DOMAIN raw
                     THEN raw["availability_days"] ELSE JNull
          days == IF given.t = "list" THEN given.items ELSE <<>>
          sent == obs[r].params.d
      IN  /\ sent["name"] =
                IF "event_name" \in DOMAIN raw /\ raw["event_name"] # JStr(<<>>)
                  THEN raw["event_name"]
                ELSE IF "name" \in DOMAIN raw THEN raw["name"] ELSE JNull
          /\ (/\ ~("date_setting" \in DOMAIN raw /\ raw["date_setting"].t = "dict")
              /\ given.t \in {"list", "null"}) =>
                sent["date_setting"] =
                  JDict([type |-> JStr(<<"date_range">>),
                         start_date |-> IF days = <<>> THEN JNull ELSE days[1],
                         end_date |-> IF days = <<>> THEN JNull ELSE days[Len(days)]])
\* a three-day list was remapped, the name coming from "name"
C11_Witness ==
  /\ obs[1].tool = 1
  /\ sess[1].plan.d["params"].d = [event_name |-> JStr(<<>>),
                                   name |-> JStr(<<"Standup">>),
                                   availability_days |-> Days(3),
                                   date_setting |-> JStr(<<"tomorrow">>)]
  /\ obs[1].params.d["name"] = JStr(<<"Standup">>)
  /\ obs[1].params.d["date_setting"].d["start_date"] = JStr(<<DayNames[1]>>)
  /\ obs[1].params.d["date_setting"].d["end_date"] = JStr(<<DayNames[3]>>)

\* the keys of state["_tool_map"], none while the key is not there
ToolMapKeys(s) == IF s.tool_map.t = "map" THEN DOMAIN s.tool_map.d ELSE {}

\* C12: in every state of a session the keys of the tool map are exactly the
\* names in available_tools; both are empty until the cache step has
\* returned, and a map that is there is the one built from the very list
\* stored beside it, whatever the later steps did.
C12_MapMatchesList ==
  \A r \in Requests :
    sess[r] # NoSession =>
      /\ ToolMapKeys(sess[r]) = SeqRange(sess[r].available_tools)
      /\ ~Completed(r, "cache_tools") =>
           sess[r].available_tools = <<>> /\ sess[r].tool_map = Absent
      /\ sess[r].tool_map # Absent => sess[r].tool_map = ToolMap(sess[r].available_tools)
\* a run ended with a listing of three tools, two of them of one name
C12_Witness ==
  /\ pc[1] = "done"
  /\ sess[1].available_tools = <<GCU, LIST_EVENTS, GCU>>
  /\ ToolMapKeys(sess[1]) = {GCU, LIST_EVENTS}
  /\ obs[1].tool = 1

\* C13: in every run that has reached the terminal state the output is not
\* empty, and when the tool's invocation raised the error is not empty
\* either, whatever the tool raised or returned and whatever the model replied.
C13_NonEmpty ==
  \A r \in Requests :
    pc[r] = "done" =>
      /\ sess[r].output # <<>>
      /\ obs[r].tool_raised => sess[r].error # <<>>

\* C14: once startup_event has returned with the loading of the tool list
\* failed, the global mcp_client is unset and /health reports "not
\* initialized" until an initialisation of ensure_mcp_client has succeeded,
\* and no request runs the pipeline with a client other than one such an
\* initialisation has set.
C14_FailedStartupLeavesUnset ==
  startup = "failed" =>
    /\ (\A r \in Requests : obs[r].init_ok = 0) =>
         /\ mcp_client = 0
         /\ health_check.mcp_client = "not initialized"
    /\ \A r \in Requests :
         sess[r] # NoSession =>
           \E q \in Requests : obs[q].init_ok = 1 /\ sess[r].mcp_client = new_client[q]

====
